---------------------------- MODULE Spec2Model ----------------------------
(***************************************************************************)
(* Model of lalrpop's compiled grammar representation (grammar/repr.rs):   *)
(* the TypeRepr algebra and TypeRepr::referenced, the Types registry, the  *)
(* ActionFn handle, Grammar::productions_for and Algorithm::from_str.      *)
(*                                                                         *)
(* Each component has its own specification over the shared variables:     *)
(*   Spec          the Types registry (new, add_type, add_term_type and    *)
(*                 the lookups)                                            *)
(*   SpecTypeRepr  TypeRepr values built constructor by constructor, and   *)
(*                 referenced() applied to them                            *)
(*   SpecActionFn  ActionFn::new / ActionFn::index on 64-bit indices       *)
(*   SpecGrammar   the nonterminal table, the start symbols and            *)
(*                 productions_for                                         *)
(*   SpecAlgorithm the interner and Algorithm::from_str                    *)
(***************************************************************************)
EXTENDS Integers, Sequences, FiniteSets, TLC

VARIABLES
    types,       \* the Types registry (struct Types)
    ctor,        \* the arguments Types::new was called with
    registered,  \* the registrations that returned normally: <<kind, key, ty>>
    ty,          \* the TypeRepr value under construction
    idx,         \* the pair of usize indices handed to ActionFn::new
    grammar,     \* Grammar.nonterminals and Grammar.start_nonterminals
    interner,    \* the interner's table of strings
    call,        \* the last call: [op |-> name, arg |-> its arguments]
    ret,         \* what the last call returned
    panicked     \* TRUE once a call has panicked: the thread is unwinding

vars == <<types, ctor, registered, ty, idx, grammar, interner, call, ret, panicked>>

---------------------------------------------------------------------------
(* Option<T>: None is the empty sequence, Some(v) the one-element one.     *)

None == <<>>

Some(v) == <<v>>

\* Option::unwrap_or / unwrap_or_else
UnwrapOr(o, d) == IF o = None THEN d ELSE o[1]

\* what a call that returns () returns
Unit == [tag |-> "()"]

\* what a call that panicked returns: nothing
Diverged == [tag |-> "panic"]

NoCall == [op |-> "none", arg |-> <<>>]

---------------------------------------------------------------------------
(* Path (grammar::parse_tree): absolute flag and identifiers.              *)

Path(absolute, ids) == [absolute |-> absolute, ids |-> ids]

\* Path::as_id: the identifier of a path that is one bare identifier
as_id(path) ==
    IF ~path.absolute /\ Len(path.ids) = 1 THEN Some(path.ids[1]) ELSE None

Path_usize == Path(FALSE, <<"usize">>)

Path_str == Path(FALSE, <<"str">>)

---------------------------------------------------------------------------
(* enum TypeRepr                                                           *)

Tuple(tys) == [tag |-> "Tuple", tys |-> tys]

Nominal(path, tys) == [tag |-> "Nominal", path |-> path, types |-> tys]

Lifetime(l) == [tag |-> "Lifetime", l |-> l]

Ref(lifetime, mutable, referent) ==
    [tag |-> "Ref", lifetime |-> lifetime, mutable |-> mutable, referent |-> referent]

TypeRepr_usize == Nominal(Path_usize, <<>>)

TypeRepr_str == Nominal(Path_str, <<>>)

(* enum TypeParameter (grammar::parse_tree)                                *)

TypeParameter_Lifetime(l) == [tag |-> "Lifetime", name |-> l]

TypeParameter_Id(id) == [tag |-> "Id", name |-> id]

RECURSIVE Mut_referenced(_)
RECURSIVE Mut_flat_referenced(_)

\* a referenced() that pushes a Nominal's own identifier before its arguments'
Mut_referenced(t) ==
    CASE t.tag = "Tuple" -> Mut_flat_referenced(t.tys)
      [] t.tag = "Nominal" ->
            (IF as_id(t.path) = None THEN <<>>
             ELSE <<TypeParameter_Id(as_id(t.path)[1])>>)
            \o Mut_flat_referenced(t.types)
      [] t.tag = "Lifetime" -> <<TypeParameter_Lifetime(t.l)>>
      [] t.tag = "Ref" ->
            [i \in 1..Len(t.lifetime) |-> TypeParameter_Lifetime(t.lifetime[i])]
            \o Mut_referenced(t.referent)

Mut_flat_referenced(tys) ==
    IF tys = <<>> THEN <<>>
    ELSE Mut_referenced(Head(tys)) \o Mut_flat_referenced(Tail(tys))

RECURSIVE referenced(_)
RECURSIVE flat_referenced(_)

\* TypeRepr::referenced
referenced(t) ==
    CASE t.tag = "Tuple" -> flat_referenced(t.tys)
      [] t.tag = "Nominal" ->
            flat_referenced(t.types)
            \o (IF as_id(t.path) = None THEN <<>>
                ELSE <<TypeParameter_Id(as_id(t.path)[1])>>)
      [] t.tag = "Lifetime" -> <<TypeParameter_Lifetime(t.l)>>
      [] t.tag = "Ref" ->
            [i \in 1..Len(t.lifetime) |-> TypeParameter_Lifetime(t.lifetime[i])]
            \o referenced(t.referent)

\* tys.iter().flat_map(|t| t.referenced())
flat_referenced(tys) ==
    IF tys = <<>> THEN <<>>
    ELSE referenced(Head(tys)) \o flat_referenced(Tail(tys))

---------------------------------------------------------------------------
(* util::Map: a finite function from keys to values.                       *)

map == <<>>

\* Map::get
MapGet(m, k) == IF k \in DOMAIN m THEN Some(m[k]) ELSE None

\* Map::insert: stores v under k, whatever was there, and returns the old value
MapInsert(m, k, v) ==
    [map |-> [x \in DOMAIN m \cup {k} |-> IF x = k THEN v ELSE m[x]],
     old |-> MapGet(m, k)]

---------------------------------------------------------------------------
(* struct Types                                                            *)

Terminals == {"a", "b"}

Nonterminals == {"S", "E"}

TyTok == Nominal(Path(FALSE, <<"Tok">>), <<>>)

TyRefFoo == Ref(Some("'a"), TRUE, Nominal(Path(FALSE, <<"Foo">>), <<>>))

\* the types handed to Types::new and to the registrations
LocTypes == {None, Some(TypeRepr_usize)}

ErrTypes == {None, Some(TypeRepr_str)}

TokTypes == {TyTok, TyRefFoo}

ArgTypes == {TypeRepr_usize, TyRefFoo}

\* Types::new
Types_new(terminal_loc_type, error_type, terminal_token_type) ==
    [terminal_loc_type |-> terminal_loc_type,
     error_type |-> error_type,
     terminal_token_type |-> terminal_token_type,
     terminal_types |-> map,
     nonterminal_types |-> map]

\* an add_type that checks before it inserts
Mut_add_type(self, nt_id, t) ==
    IF nt_id \in DOMAIN self.nonterminal_types
    THEN [self |-> self, panic |-> TRUE]
    ELSE [self |-> [self EXCEPT !.nonterminal_types =
                        MapInsert(self.nonterminal_types, nt_id, t).map],
          panic |-> FALSE]

\* Types::add_type: the insert runs first, the assertion looks at what it returned
add_type(self, nt_id, t) ==
    LET r == MapInsert(self.nonterminal_types, nt_id, t)
    IN  [self |-> [self EXCEPT !.nonterminal_types = r.map],
         panic |-> ~(r.old = None)]

\* Types::add_term_type
add_term_type(self, term, t) ==
    LET r == MapInsert(self.terminal_types, term, t)
    IN  [self |-> [self EXCEPT !.terminal_types = r.map],
         panic |-> ~(r.old = None)]

\* Types::terminal_token_type
terminal_token_type(self) == self.terminal_token_type

\* a terminal_loc_type that defaults to usize
Mut_terminal_loc_type(self) == UnwrapOr(self.terminal_loc_type, TypeRepr_usize)

\* Types::terminal_loc_type
terminal_loc_type(self) == UnwrapOr(self.terminal_loc_type, Tuple(<<>>))

\* Types::error_type
error_type(self) == UnwrapOr(self.error_type, Tuple(<<>>))

\* a terminal_type that never looks at the registrations
Mut_terminal_type(self, id) == self.terminal_token_type

\* Types::terminal_type
terminal_type(self, id) ==
    UnwrapOr(MapGet(self.terminal_types, id), self.terminal_token_type)

\* Types::lookup_nonterminal_type
lookup_nonterminal_type(self, id) == MapGet(self.nonterminal_types, id)

\* a nonterminal_type that falls back to the token type
Mut_nonterminal_type(self, id) ==
    [panic |-> FALSE,
     val |-> UnwrapOr(MapGet(self.nonterminal_types, id), self.terminal_token_type)]

\* Types::nonterminal_type: indexing the map panics on a key it does not hold
nonterminal_type(self, id) ==
    IF id \in DOMAIN self.nonterminal_types
    THEN [panic |-> FALSE, val |-> self.nonterminal_types[id]]
    ELSE [panic |-> TRUE, val |-> Diverged]

\* Types::triple_type
triple_type(self) ==
    LET enum_type == terminal_token_type(self)
        location_type == terminal_loc_type(self)
    IN  Tuple(<<location_type, enum_type, location_type>>)

(* The registry's calls.  A panic unwinds the caller: nothing runs after.  *)

OtherInit ==
    /\ ty = Tuple(<<>>)
    /\ idx = <<>>
    /\ grammar = [nonterminals |-> map, start_nonterminals |-> map]
    /\ interner = <<>>

Init ==
    /\ \E l \in LocTypes, e \in ErrTypes, k \in TokTypes :
          /\ ctor = [loc |-> l, err |-> e, tok |-> k]
          /\ types = Types_new(l, e, k)
    /\ registered = {}
    /\ call = NoCall
    /\ ret = Unit
    /\ panicked = FALSE
    /\ OtherInit

CallAddType ==
    /\ ~panicked
    /\ \E nt_id \in Nonterminals, t \in ArgTypes :
          LET r == add_type(types, nt_id, t)
          IN  /\ types' = r.self
              /\ panicked' = r.panic
              /\ ret' = IF r.panic THEN Diverged ELSE Unit
              /\ registered' = IF r.panic THEN registered
                               ELSE registered \cup {<<"nonterminal", nt_id, t>>}
              /\ call' = [op |-> "add_type", arg |-> <<nt_id, t>>]
    /\ UNCHANGED <<ctor, ty, idx, grammar, interner>>

CallAddTermType ==
    /\ ~panicked
    /\ \E term \in Terminals, t \in ArgTypes :
          LET r == add_term_type(types, term, t)
          IN  /\ types' = r.self
              /\ panicked' = r.panic
              /\ ret' = IF r.panic THEN Diverged ELSE Unit
              /\ registered' = IF r.panic THEN registered
                               ELSE registered \cup {<<"terminal", term, t>>}
              /\ call' = [op |-> "add_term_type", arg |-> <<term, t>>]
    /\ UNCHANGED <<ctor, ty, idx, grammar, interner>>

CallTerminalType ==
    /\ ~panicked
    /\ \E id \in Terminals :
          /\ ret' = terminal_type(types, id)
          /\ call' = [op |-> "terminal_type", arg |-> <<id>>]
    /\ UNCHANGED <<types, ctor, registered, ty, idx, grammar, interner, panicked>>

CallLookupNonterminalType ==
    /\ ~panicked
    /\ \E id \in Nonterminals :
          /\ ret' = lookup_nonterminal_type(types, id)
          /\ call' = [op |-> "lookup_nonterminal_type", arg |-> <<id>>]
    /\ UNCHANGED <<types, ctor, registered, ty, idx, grammar, interner, panicked>>

CallNonterminalType ==
    /\ ~panicked
    /\ \E id \in Nonterminals :
          LET r == nonterminal_type(types, id)
          IN  /\ ret' = r.val
              /\ panicked' = r.panic
              /\ call' = [op |-> "nonterminal_type", arg |-> <<id>>]
    /\ UNCHANGED <<types, ctor, registered, ty, idx, grammar, interner>>

CallTerminalLocType ==
    /\ ~panicked
    /\ ret' = terminal_loc_type(types)
    /\ call' = [op |-> "terminal_loc_type", arg |-> <<>>]
    /\ UNCHANGED <<types, ctor, registered, ty, idx, grammar, interner, panicked>>

CallErrorType ==
    /\ ~panicked
    /\ ret' = error_type(types)
    /\ call' = [op |-> "error_type", arg |-> <<>>]
    /\ UNCHANGED <<types, ctor, registered, ty, idx, grammar, interner, panicked>>

CallTripleType ==
    /\ ~panicked
    /\ ret' = triple_type(types)
    /\ call' = [op |-> "triple_type", arg |-> <<>>]
    /\ UNCHANGED <<types, ctor, registered, ty, idx, grammar, interner, panicked>>

Next ==
    \/ CallAddType
    \/ CallAddTermType
    \/ CallTerminalType
    \/ CallLookupNonterminalType
    \/ CallNonterminalType
    \/ CallTerminalLocType
    \/ CallErrorType
    \/ CallTripleType

Spec == Init /\ [][Next]_vars

---------------------------------------------------------------------------
(* Claims about the Types registry, checked under Spec.                    *)

\* the types registered for a key by the calls that returned normally
RegisteredFor(kind, key) == {t \in ArgTypes : <<kind, key, t>> \in registered}

\* the step is a call of add_type / add_term_type on a key that holds a type
ReRegistersNonterminal(k) ==
    /\ call'.op = "add_type"
    /\ call'.arg[1] = k
    /\ k \in DOMAIN types.nonterminal_types

ReRegistersTerminal(k) ==
    /\ call'.op = "add_term_type"
    /\ call'.arg[1] = k
    /\ k \in DOMAIN types.terminal_types

\* C1 as stated: a second registration for a key that already has a type
\* aborts, and at the abort the registry still maps the key to the first type.
C1_Original ==
    [][/\ \A k \in Nonterminals : ReRegistersNonterminal(k) =>
              /\ panicked'
              /\ types'.nonterminal_types[k] = types.nonterminal_types[k]
       /\ \A k \in Terminals : ReRegistersTerminal(k) =>
              /\ panicked'
              /\ types'.terminal_types[k] = types.terminal_types[k]]_vars

\* C1 as amended: a second registration for a key that already has a type
\* aborts (the call panics and registers nothing), but the insert has run
\* before the assertion fails: at the abort the registry maps the key to the
\* type passed to the second call, and every other entry is unchanged.
C1_ReRegistrationAbortsAfterInsert ==
    [][/\ \A k \in Nonterminals : ReRegistersNonterminal(k) =>
              /\ panicked'
              /\ registered' = registered
              /\ types'.nonterminal_types[k] = call'.arg[2]
              /\ DOMAIN types'.nonterminal_types = DOMAIN types.nonterminal_types
              /\ \A j \in DOMAIN types.nonterminal_types \ {k} :
                    types'.nonterminal_types[j] = types.nonterminal_types[j]
              /\ types'.terminal_types = types.terminal_types
       /\ \A k \in Terminals : ReRegistersTerminal(k) =>
              /\ panicked'
              /\ registered' = registered
              /\ types'.terminal_types[k] = call'.arg[2]
              /\ DOMAIN types'.terminal_types = DOMAIN types.terminal_types
              /\ \A j \in DOMAIN types.terminal_types \ {k} :
                    types'.terminal_types[j] = types.terminal_types[j]
              /\ types'.nonterminal_types = types.nonterminal_types]_vars

\* a second add_type has panicked, leaving its own type where the first one was
C1_Witness ==
    /\ panicked
    /\ call.op = "add_type"
    /\ RegisteredFor("nonterminal", call.arg[1]) # {}
    /\ call.arg[2] \notin RegisteredFor("nonterminal", call.arg[1])
    /\ types.nonterminal_types[call.arg[1]] = call.arg[2]

\* what terminal_type is to return for x: the one type registered for x by
\* add_term_type, else the token type Types::new was given
ExpectedTerminalType(x) ==
    IF RegisteredFor("terminal", x) = {} THEN ctor.tok
    ELSE CHOOSE t \in RegisteredFor("terminal", x) : TRUE

\* C2: while every registration has succeeded, terminal_type(x) is the token
\* type given to Types::new if x was never registered with add_term_type and
\* the type registered for x otherwise, whatever add_type calls were made.
C2_TerminalTypeFallback ==
    ~panicked =>
        /\ \A x \in Terminals :
              /\ Cardinality(RegisteredFor("terminal", x)) <= 1
              /\ terminal_type(types, x) = ExpectedTerminalType(x)
        /\ call.op = "terminal_type" => ret = ExpectedTerminalType(call.arg[1])

\* terminal_type has returned a registered type that is not the token type,
\* with a nonterminal registered as well
C2_Witness ==
    /\ ~panicked
    /\ call.op = "terminal_type"
    /\ RegisteredFor("terminal", call.arg[1]) # {}
    /\ ret # ctor.tok
    /\ ret \in RegisteredFor("terminal", call.arg[1])
    /\ \E n \in Nonterminals : RegisteredFor("nonterminal", n) # {}
    /\ \E x \in Terminals : RegisteredFor("terminal", x) = {}

\* C3 as stated: both nonterminal lookups fail fatally on a nonterminal that
\* was never registered with add_type.
C3_Original ==
    (/\ call.op \in {"nonterminal_type", "lookup_nonterminal_type"}
     /\ RegisteredFor("nonterminal", call.arg[1]) = {})
    => panicked

\* C3 as amended: on a nonterminal never registered with add_type,
\* nonterminal_type panics, while lookup_nonterminal_type returns None without
\* failing; terminal_type on an unregistered terminal returns the token type.
C3_UnregisteredLookups ==
    /\ (/\ call.op = "nonterminal_type"
        /\ RegisteredFor("nonterminal", call.arg[1]) = {})
       => (panicked /\ ret = Diverged)
    /\ (/\ call.op = "nonterminal_type"
        /\ RegisteredFor("nonterminal", call.arg[1]) # {})
       => (~panicked /\ ret \in RegisteredFor("nonterminal", call.arg[1]))
    /\ (/\ call.op = "lookup_nonterminal_type"
        /\ RegisteredFor("nonterminal", call.arg[1]) = {})
       => (~panicked /\ ret = None)
    /\ (/\ call.op = "lookup_nonterminal_type"
        /\ RegisteredFor("nonterminal", call.arg[1]) # {})
       => (~panicked /\ ret # None /\ ret[1] \in RegisteredFor("nonterminal", call.arg[1]))
    /\ (/\ call.op = "terminal_type"
        /\ RegisteredFor("terminal", call.arg[1]) = {})
       => (~panicked /\ ret = ctor.tok)

\* nonterminal_type has panicked on a nonterminal that was never registered,
\* another one being registered
C3_Witness ==
    /\ panicked
    /\ call.op = "nonterminal_type"
    /\ RegisteredFor("nonterminal", call.arg[1]) = {}
    /\ \E n \in Nonterminals : RegisteredFor("nonterminal", n) # {}

\* the location type the registry is to report
ExpectedLocType == IF ctor.loc = None THEN Tuple(<<>>) ELSE ctor.loc[1]

ExpectedErrorType == IF ctor.err = None THEN Tuple(<<>>) ELSE ctor.err[1]

\* C9: terminal_loc_type() and error_type() return the type Types::new was
\* given, or the empty tuple when it was given none; triple_type() is
\* (L, TOK, L) with L what terminal_loc_type() returns; no registration
\* changes any of the three.
C9_DefaultsAndTriple ==
    /\ terminal_loc_type(types) = ExpectedLocType
    /\ error_type(types) = ExpectedErrorType
    /\ triple_type(types) = Tuple(<<ExpectedLocType, ctor.tok, ExpectedLocType>>)
    /\ (ctor.loc = None /\ ctor.err = None) =>
           triple_type(types) = Tuple(<<Tuple(<<>>), ctor.tok, Tuple(<<>>)>>)
    /\ call.op = "terminal_loc_type" => ret = ExpectedLocType
    /\ call.op = "error_type" => ret = ExpectedErrorType
    /\ call.op = "triple_type" =>
           ret = Tuple(<<ExpectedLocType, ctor.tok, ExpectedLocType>>)

\* triple_type has returned (unit, TOK, unit) on a registry made with no
\* location and no error type, after registrations of both kinds
C9_Witness ==
    /\ call.op = "triple_type"
    /\ ctor.loc = None
    /\ ctor.err = None
    /\ ret = Tuple(<<Tuple(<<>>), ctor.tok, Tuple(<<>>)>>)
    /\ \E n \in Nonterminals : RegisteredFor("nonterminal", n) # {}
    /\ \E x \in Terminals : RegisteredFor("terminal", x) # {}

---------------------------------------------------------------------------
(* TypeRepr values, built by the enum's constructors, and referenced().    *)

\* how many constructors may be nested around a leaf
MaxDepth == 2

LifetimeNames == {"'a", "'b"}

\* a bare identifier, an absolute path and a path of two segments
Paths == {Path(FALSE, <<"Foo">>), Path(TRUE, <<"Foo">>), Path(FALSE, <<"std", "Vec">>)}

\* the types with no component: the empty tuple, a lifetime, a nominal type
\* with no type argument
LeafTypes ==
    {Tuple(<<>>)} \cup {Lifetime(l) : l \in LifetimeNames}
                  \cup {Nominal(p, <<>>) : p \in Paths}

\* the types put beside the one under construction in a tuple or an argument list
SiblingTypes == {Lifetime("'b"), Nominal(Path(FALSE, <<"T">>), <<>>)}

\* the component lists a Tuple or a Nominal is built from
ComponentLists(t) ==
    {<<t>>} \cup {<<t, s>> : s \in SiblingTypes} \cup {<<s, t>> : s \in SiblingTypes}

RECURSIVE Depth(_)

\* the number of constructors nested around the deepest leaf of t
Depth(t) ==
    CASE t.tag = "Tuple" /\ t.tys = <<>> -> 0
      [] t.tag = "Tuple" /\ t.tys # <<>> ->
            1 + (CHOOSE d \in {Depth(t.tys[i]) : i \in 1..Len(t.tys)} :
                    \A i \in 1..Len(t.tys) : Depth(t.tys[i]) <= d)
      [] t.tag = "Nominal" /\ t.types = <<>> -> 0
      [] t.tag = "Nominal" /\ t.types # <<>> ->
            1 + (CHOOSE d \in {Depth(t.types[i]) : i \in 1..Len(t.types)} :
                    \A i \in 1..Len(t.types) : Depth(t.types[i]) <= d)
      [] t.tag = "Lifetime" -> 0
      [] t.tag = "Ref" -> 1 + Depth(t.referent)

RegistryIdle ==
    /\ ctor = [loc |-> None, err |-> None, tok |-> TyTok]
    /\ types = Types_new(None, None, TyTok)
    /\ registered = {}

InitTypeRepr ==
    /\ ty \in LeafTypes
    /\ call = NoCall
    /\ ret = Unit
    /\ panicked = FALSE
    /\ RegistryIdle
    /\ idx = <<>>
    /\ grammar = [nonterminals |-> map, start_nonterminals |-> map]
    /\ interner = <<>>

\* TypeRepr::Ref { lifetime, mutable, referent }
MkRef ==
    /\ Depth(ty) < MaxDepth
    /\ \E l \in {None} \cup {Some(n) : n \in LifetimeNames}, m \in BOOLEAN :
          ty' = Ref(l, m, ty)
    /\ call' = NoCall
    /\ ret' = Unit
    /\ UNCHANGED <<types, ctor, registered, idx, grammar, interner, panicked>>

\* TypeRepr::Tuple(tys)
MkTuple ==
    /\ Depth(ty) < MaxDepth
    /\ \E tys \in ComponentLists(ty) : ty' = Tuple(tys)
    /\ call' = NoCall
    /\ ret' = Unit
    /\ UNCHANGED <<types, ctor, registered, idx, grammar, interner, panicked>>

\* TypeRepr::Nominal(NominalTypeRepr { path, types })
MkNominal ==
    /\ Depth(ty) < MaxDepth
    /\ \E p \in Paths, tys \in ComponentLists(ty) : ty' = Nominal(p, tys)
    /\ call' = NoCall
    /\ ret' = Unit
    /\ UNCHANGED <<types, ctor, registered, idx, grammar, interner, panicked>>

CallReferenced ==
    /\ ret' = referenced(ty)
    /\ call' = [op |-> "referenced", arg |-> <<ty>>]
    /\ UNCHANGED <<types, ctor, registered, ty, idx, grammar, interner, panicked>>

NextTypeRepr ==
    \/ MkRef
    \/ MkTuple
    \/ MkNominal
    \/ CallReferenced

SpecTypeRepr == InitTypeRepr /\ [][NextTypeRepr]_vars

(* Claim about referenced(), checked under SpecTypeRepr.                   *)

RECURSIVE ConcatAll(_)

\* the concatenation of a sequence of sequences, in order
ConcatAll(ss) ==
    IF Len(ss) = 0 THEN <<>>
    ELSE ConcatAll(SubSeq(ss, 1, Len(ss) - 1)) \o ss[Len(ss)]

RECURSIVE NodesOf(_)

\* every node of t, itself included
NodesOf(t) ==
    CASE t.tag = "Tuple" -> <<t>> \o ConcatAll([i \in 1..Len(t.tys) |-> NodesOf(t.tys[i])])
      [] t.tag = "Nominal" ->
            <<t>> \o ConcatAll([i \in 1..Len(t.types) |-> NodesOf(t.types[i])])
      [] t.tag = "Lifetime" -> <<t>>
      [] t.tag = "Ref" -> <<t>> \o NodesOf(t.referent)

\* the entries one node stands for: a Lifetime node and a Ref with a lifetime
\* stand for that lifetime, a Nominal whose path is one bare identifier for
\* that identifier, every other node for nothing
EntriesOfNode(n) ==
    CASE n.tag = "Lifetime" -> {TypeParameter_Lifetime(n.l)}
      [] n.tag = "Ref" -> {TypeParameter_Lifetime(n.lifetime[i]) : i \in 1..Len(n.lifetime)}
      [] n.tag = "Nominal" ->
            IF n.path.absolute = FALSE /\ Len(n.path.ids) = 1
            THEN {TypeParameter_Id(n.path.ids[1])} ELSE {}
      [] n.tag = "Tuple" -> {}

AllEntries ==
    {TypeParameter_Lifetime(l) : l \in LifetimeNames}
    \cup {TypeParameter_Id(i) : i \in {"Foo", "T", "std", "Vec"}}

Occurrences(s, e) == Cardinality({i \in 1..Len(s) : s[i] = e})

\* C4: referenced(t) is the traversal's sequence, with no deduplication: a
\* Tuple gives its elements' entries in element order; a Nominal its type
\* arguments' entries in order, then Id(path) iff the path is one bare
\* identifier; a Lifetime itself; a Ref its lifetime if present, then its
\* referent's entries.  So every entry occurs as many times as there are nodes
\* of t standing for it, and `&'a mut Foo` gives [Lifetime('a), Id(Foo)].
C4_ReferencedTraversal ==
    call.op = "referenced" =>
        LET t == call.arg[1]
            nodes == NodesOf(t)
        IN  /\ t.tag = "Tuple" =>
                  ret = ConcatAll([i \in 1..Len(t.tys) |-> referenced(t.tys[i])])
            /\ t.tag = "Nominal" =>
                  ret = ConcatAll([i \in 1..Len(t.types) |-> referenced(t.types[i])])
                        \o (IF t.path.absolute = FALSE /\ Len(t.path.ids) = 1
                            THEN <<TypeParameter_Id(t.path.ids[1])>> ELSE <<>>)
            /\ t.tag = "Lifetime" => ret = <<TypeParameter_Lifetime(t.l)>>
            /\ t.tag = "Ref" =>
                  ret = (IF t.lifetime = None THEN <<>>
                         ELSE <<TypeParameter_Lifetime(t.lifetime[1])>>)
                        \o referenced(t.referent)
            /\ \A e \in AllEntries :
                  Occurrences(ret, e) =
                      Cardinality({i \in 1..Len(nodes) : e \in EntriesOfNode(nodes[i])})
            /\ \A i \in 1..Len(ret) : ret[i] \in AllEntries
            /\ t = TyRefFoo =>
                  ret = <<TypeParameter_Lifetime("'a"), TypeParameter_Id("Foo")>>

\* referenced() has run on a Nominal with a bare path whose first argument is
\* a reference with a lifetime: the lifetime comes first, the identifier last
C4_Witness ==
    /\ call.op = "referenced"
    /\ call.arg[1].tag = "Nominal"
    /\ call.arg[1].path = Path(FALSE, <<"Foo">>)
    /\ Len(call.arg[1].types) = 2
    /\ call.arg[1].types[1].tag = "Ref"
    /\ call.arg[1].types[1].lifetime = Some("'a")
    /\ call.arg[1].types[1].referent = Nominal(Path(FALSE, <<"Foo">>), <<>>)
    /\ ret = <<TypeParameter_Lifetime("'a"), TypeParameter_Id("Foo"),
               TypeParameter_Lifetime("'b"), TypeParameter_Id("Foo")>>

---------------------------------------------------------------------------
(* struct ActionFn(u32).  An unsigned integer is the sequence of its       *)
(* 16-bit digits, the least significant first: a u32 has two of them, a    *)
(* usize (on a 64-bit target) four.                                        *)

\* the 16-bit digits of a u32
U32Limbs == 2

\* the 16-bit digits of a 64-bit usize
UsizeLimbs == 4

\* the digit values the indices are drawn from: the least, one, the greatest
LimbValues == {0, 1, 65535}

Usizes == [1..UsizeLimbs -> LimbValues]

\* an ActionFn::new that narrows to 16 bits on the way
Mut_ActionFn_new(x) == [handle |-> [i \in 1..U32Limbs |-> IF i = 1 THEN x[i] ELSE 0]]

\* an ActionFn::new that saturates instead of wrapping
Sat_ActionFn_new(x) ==
    IF \A i \in (U32Limbs + 1)..UsizeLimbs : x[i] = 0
    THEN [handle |-> SubSeq(x, 1, U32Limbs)]
    ELSE [handle |-> [i \in 1..U32Limbs |-> 65535]]

\* ActionFn::new: `x as u32` keeps the low 32 bits of x
ActionFn_new(x) == [handle |-> SubSeq(x, 1, U32Limbs)]

\* ActionFn::index: `self.0 as usize` extends with zeros
ActionFn_index(self) == self.handle \o [i \in 1..(UsizeLimbs - U32Limbs) |-> 0]

InitActionFn ==
    /\ idx \in Usizes \X Usizes
    /\ call = NoCall
    /\ ret = Unit
    /\ panicked = FALSE
    /\ RegistryIdle
    /\ ty = Tuple(<<>>)
    /\ grammar = [nonterminals |-> map, start_nonterminals |-> map]
    /\ interner = <<>>

\* ActionFn::new on each of the two indices
CallNew ==
    /\ call.op = "none"
    /\ ret' = <<ActionFn_new(idx[1]), ActionFn_new(idx[2])>>
    /\ call' = [op |-> "new", arg |-> idx]
    /\ UNCHANGED <<types, ctor, registered, ty, idx, grammar, interner, panicked>>

\* ActionFn::index on each of the two handles
CallIndex ==
    /\ call.op = "new"
    /\ ret' = <<ActionFn_index(ret[1]), ActionFn_index(ret[2])>>
    /\ call' = [op |-> "index", arg |-> ret]
    /\ UNCHANGED <<types, ctor, registered, ty, idx, grammar, interner, panicked>>

NextActionFn ==
    \/ CallNew
    \/ CallIndex

SpecActionFn == InitActionFn /\ [][NextActionFn]_vars

(* Claims about ActionFn, checked under SpecActionFn.                      *)

\* 0 <= x < 2^32: every digit above the low 32 bits is zero
InU32Range(x) == \A i \in (U32Limbs + 1)..UsizeLimbs : x[i] = 0

\* x mod 2^32: the low 32 bits of x, the digits above them zero
Mod2_32(x) == [i \in 1..UsizeLimbs |-> IF i <= U32Limbs THEN x[i] ELSE 0]

\* C5: ActionFn::new(x).index() == x for every x with 0 <= x < 2^32; within
\* that range distinct indices give distinct handles (equal handles denote
\* the same slot).
C5_RoundTripInRange ==
    call.op = "index" =>
        /\ \A i \in 1..2 : InU32Range(idx[i]) => ret[i] = idx[i]
        /\ (InU32Range(idx[1]) /\ InU32Range(idx[2])) =>
               (call.arg[1] = call.arg[2] <=> idx[1] = idx[2])

\* the round trip has run on 2^32 - 1 and on a different index in range
C5_Witness ==
    /\ call.op = "index"
    /\ idx[1] = <<65535, 65535, 0, 0>>
    /\ ret[1] = idx[1]
    /\ InU32Range(idx[2])
    /\ idx[2] # idx[1]
    /\ call.arg[1] # call.arg[2]

\* C10: ActionFn::new never fails and checks no range: it keeps the low 32
\* bits, so new(x).index() == x mod 2^32 for every x, and two indices
\* congruent modulo 2^32 give equal handles, which index() maps to one slot.
C10_TruncatesSilently ==
    /\ ~panicked
    /\ call.op = "new" => \A i \in 1..2 : ret[i].handle = SubSeq(idx[i], 1, U32Limbs)
    /\ call.op = "index" =>
          /\ \A i \in 1..2 : ret[i] = Mod2_32(idx[i])
          /\ Mod2_32(idx[1]) = Mod2_32(idx[2]) =>
                 (call.arg[1] = call.arg[2] /\ ret[1] = ret[2])

\* 2^32 + 1 and 1 have been given the same handle, and both index slot 1
C10_Witness ==
    /\ call.op = "index"
    /\ idx[1] = <<1, 0, 1, 0>>
    /\ idx[2] = <<1, 0, 0, 0>>
    /\ call.arg[1] = call.arg[2]
    /\ ret[1] = <<1, 0, 0, 0>>
    /\ ret[1] # idx[1]

---------------------------------------------------------------------------
(* struct Grammar: the nonterminal table and the start symbols.            *)

\* how many productions a pass gives one nonterminal
MaxProductions == 2

\* the nonterminals the grammar's author may define
UserNonterminals == {"S", "E"}

\* the artificial start symbol introduced for a public nonterminal: Foo' for Foo
StartSymbolFor(n) == IF n = "S" THEN "S'" ELSE "E'"

\* a name no pass ever defines
Undefined == "X"

AllNonterminals ==
    UserNonterminals \cup {StartSymbolFor(n) : n \in UserNonterminals} \cup {Undefined}

\* enum Symbol
Symbol_Nonterminal(n) == [tag |-> "Nonterminal", name |-> n]

Symbol_Terminal(t) == [tag |-> "Terminal", name |-> t]

\* enum ActionKind
ActionKind_Call(f) == [tag |-> "Call", fn |-> f]

ActionKind_TryCall(f) == [tag |-> "TryCall", fn |-> f]

\* struct Production (the span left out)
Production(nonterminal, symbols, action) ==
    [nonterminal |-> nonterminal, symbols |-> symbols, action |-> action]

\* struct NonterminalData (the span and the annotations left out)
NonterminalData(name, productions) == [name |-> name, productions |-> productions]

\* the right-hand sides and actions the passes give out
Bodies ==
    {[symbols |-> <<>>, action |-> ActionKind_Call(ActionFn_new(<<0, 0, 0, 0>>))],
     [symbols |-> <<Symbol_Terminal("a")>>,
      action |-> ActionKind_TryCall(ActionFn_new(<<1, 0, 0, 0>>))],
     [symbols |-> <<Symbol_Nonterminal("E"), Symbol_Terminal("a")>>,
      action |-> ActionKind_Call(ActionFn_new(<<0, 0, 0, 0>>))]}

\* a productions_for that slices from the second production on
Mut_productions_for(self, nonterminal) ==
    IF nonterminal \in DOMAIN self.nonterminals
    THEN SubSeq(self.nonterminals[nonterminal].productions, 2,
                Len(self.nonterminals[nonterminal].productions))
    ELSE <<>>

\* Grammar::productions_for
productions_for(self, nonterminal) ==
    LET found == MapGet(self.nonterminals, nonterminal)
    IN  IF found = None THEN <<>> ELSE found[1].productions

InitGrammar ==
    /\ grammar = [nonterminals |-> map, start_nonterminals |-> map]
    /\ call = NoCall
    /\ ret = Unit
    /\ panicked = FALSE
    /\ RegistryIdle
    /\ ty = Tuple(<<>>)
    /\ idx = <<>>
    /\ interner = <<>>

\* a pass defines a nonterminal of the grammar, with no production yet
DefineNonterminal ==
    /\ \E n \in UserNonterminals \ DOMAIN grammar.nonterminals :
          /\ grammar' = [grammar EXCEPT !.nonterminals =
                            MapInsert(grammar.nonterminals, n, NonterminalData(n, <<>>)).map]
          /\ call' = [op |-> "define", arg |-> <<n>>]
    /\ ret' = Unit
    /\ UNCHANGED <<types, ctor, registered, ty, idx, interner, panicked>>

\* a pass appends a production to a nonterminal of the grammar
AddProduction ==
    /\ \E n \in UserNonterminals \cap DOMAIN grammar.nonterminals, b \in Bodies :
          /\ Len(grammar.nonterminals[n].productions) < MaxProductions
          /\ grammar' = [grammar EXCEPT !.nonterminals[n].productions =
                            Append(@, Production(n, b.symbols, b.action))]
          /\ call' = [op |-> "produce", arg |-> <<n>>]
    /\ ret' = Unit
    /\ UNCHANGED <<types, ctor, registered, ty, idx, interner, panicked>>

\* a pass makes a defined nonterminal public: it introduces the artificial
\* start symbol with its single production Foo' = Foo
DeclareStart ==
    /\ \E n \in (UserNonterminals \cap DOMAIN grammar.nonterminals)
                    \ DOMAIN grammar.start_nonterminals :
          LET s == StartSymbolFor(n)
              p == Production(s, <<Symbol_Nonterminal(n)>>,
                              ActionKind_Call(ActionFn_new(<<0, 0, 0, 0>>)))
          IN  /\ grammar' =
                    [nonterminals |->
                         MapInsert(grammar.nonterminals, s, NonterminalData(s, <<p>>)).map,
                     start_nonterminals |->
                         MapInsert(grammar.start_nonterminals, n, s).map]
              /\ call' = [op |-> "start", arg |-> <<n>>]
    /\ ret' = Unit
    /\ UNCHANGED <<types, ctor, registered, ty, idx, interner, panicked>>

\* Grammar::productions_for, on any name; the call records the grammar it saw
CallProductionsFor ==
    /\ \E n \in AllNonterminals :
          /\ ret' = productions_for(grammar, n)
          /\ call' = [op |-> "productions_for", arg |-> <<n, grammar>>]
    /\ UNCHANGED <<types, ctor, registered, ty, idx, grammar, interner, panicked>>

NextGrammar ==
    \/ DefineNonterminal
    \/ AddProduction
    \/ DeclareStart
    \/ CallProductionsFor

SpecGrammar == InitGrammar /\ [][NextGrammar]_vars

(* Claims about the Grammar, checked under SpecGrammar.                    *)

\* C7: productions_for(n) never fails; for a key of the nonterminal table it
\* returns that entry's productions in their stored order, for any other name
\* the empty sequence; the grammar is as it was before the call.
C7_ProductionsForTotal ==
    call.op = "productions_for" =>
        LET n == call.arg[1]
        IN  /\ ~panicked
            /\ grammar = call.arg[2]
            /\ n \in DOMAIN grammar.nonterminals =>
                  /\ Len(ret) = Len(grammar.nonterminals[n].productions)
                  /\ \A i \in 1..Len(ret) : ret[i] = grammar.nonterminals[n].productions[i]
            /\ n \notin DOMAIN grammar.nonterminals => ret = <<>>

\* productions_for has returned two different productions in their stored
\* order, and the table lacks some other name
C7_Witness ==
    /\ call.op = "productions_for"
    /\ call.arg[1] \in DOMAIN grammar.nonterminals
    /\ Len(ret) = 2
    /\ ret[1] # ret[2]
    /\ ret[1].symbols = <<Symbol_Terminal("a")>>
    /\ ret = grammar.nonterminals[call.arg[1]].productions
    /\ Undefined \notin DOMAIN grammar.nonterminals

---------------------------------------------------------------------------
(* The interner (module intern) and Algorithm::from_str.                   *)

\* how many strings are interned
MaxInterned == 3

\* the strings a grammar may name its algorithm with
AlgorithmNames == {"LR", "LR(1)", "LALR", "LALR(1)", "lr", "lalr(1)", "LALR(1) ", ""}

\* the position of s in the table, 0 if it holds no s
PositionOf(table, s) ==
    IF \E i \in 1..Len(table) : table[i] = s
    THEN CHOOSE i \in 1..Len(table) : table[i] = s
    ELSE 0

\* intern::intern: the string's one identity, a new one if it had none
intern(table, s) ==
    IF PositionOf(table, s) # 0
    THEN [table |-> table, id |-> PositionOf(table, s)]
    ELSE [table |-> Append(table, s), id |-> Len(table) + 1]

\* Interner::data: the string an identity stands for
data(table, id) == table[id]

\* str::to_uppercase on the algorithm names
ToUpper(s) ==
    CASE s = "lr" -> "LR"
      [] s = "lalr(1)" -> "LALR(1)"
      [] OTHER -> s

\* a from_str that ignores case
Mut_Algorithm_from_str(table, s) ==
    LET d == ToUpper(data(table, s))
    IN  CASE d \in {"LR", "LR(1)"} -> Some("LR1")
          [] d \in {"LALR", "LALR(1)"} -> Some("LALR1")
          [] OTHER -> None

\* Algorithm::from_str
Algorithm_from_str(table, s) ==
    LET d == data(table, s)
    IN  CASE d = "LR" \/ d = "LR(1)" -> Some("LR1")
          [] d = "LALR" \/ d = "LALR(1)" -> Some("LALR1")
          [] OTHER -> None

InitAlgorithm ==
    /\ interner = <<>>
    /\ call = NoCall
    /\ ret = Unit
    /\ panicked = FALSE
    /\ RegistryIdle
    /\ ty = Tuple(<<>>)
    /\ idx = <<>>
    /\ grammar = [nonterminals |-> map, start_nonterminals |-> map]

CallIntern ==
    /\ \E s \in AlgorithmNames :
          /\ PositionOf(interner, s) # 0 \/ Len(interner) < MaxInterned
          /\ interner' = intern(interner, s).table
          /\ ret' = intern(interner, s).id
          /\ call' = [op |-> "intern", arg |-> <<s>>]
    /\ UNCHANGED <<types, ctor, registered, ty, idx, grammar, panicked>>

CallFromStr ==
    /\ \E s \in 1..Len(interner) :
          /\ ret' = Algorithm_from_str(interner, s)
          /\ call' = [op |-> "from_str", arg |-> <<s>>]
    /\ UNCHANGED <<types, ctor, registered, ty, idx, grammar, interner, panicked>>

NextAlgorithm ==
    \/ CallIntern
    \/ CallFromStr

SpecAlgorithm == InitAlgorithm /\ [][NextAlgorithm]_vars

(* Claim about Algorithm::from_str, checked under SpecAlgorithm.           *)

\* C6: from_str never fails and compares exactly: it returns LR1 for "LR"
\* and "LR(1)", LALR1 for "LALR" and "LALR(1)", and None for every other
\* string, among them "lr" and "LALR(1) ".
C6_FromStrAliases ==
    call.op = "from_str" =>
        LET str == interner[call.arg[1]]
        IN  /\ ~panicked
            /\ str \in {"LR", "LR(1)"} <=> ret = Some("LR1")
            /\ str \in {"LALR", "LALR(1)"} <=> ret = Some("LALR1")
            /\ str \notin {"LR", "LR(1)", "LALR", "LALR(1)"} <=> ret = None
            /\ str \in {"lr", "lalr(1)", "LALR(1) ", ""} => ret = None

\* from_str has returned None for "lr" with "LR" interned beside it
C6_Witness ==
    /\ call.op = "from_str"
    /\ interner[call.arg[1]] = "lr"
    /\ ret = None
    /\ \E i \in 1..Len(interner) : interner[i] = "LR"

=============================================================================
